---- MODULE Spec2Model ----
(***************************************************************************)
(* Model of surya/recognition.py: the memory-driven batch-size estimate    *)
(* (get_available_memory_gb, get_batch_size) and one call of               *)
(* batch_recognition: validation, the width sort, the chunk loop, the      *)
(* autoregressive decode loop of each chunk with its done-mask and score   *)
(* matrix, the confidence aggregation and the final reordering.            *)
(*                                                                         *)
(* Conventions.  Python's None is the empty tuple and a present value x is *)
(* the one-element tuple <<x>>.  Python lists are TLA+ sequences (1-based) *)
(* whose stored index VALUES are Python's 0-based ones.  Memory readings   *)
(* are integers in tenths of a GiB; a probability score is an integer      *)
(* numerator over a fixed denominator, so a masked score is exactly 0 and  *)
(* every raw score is > 0 (the maximum of a softmax is at least 1/|V|).    *)
(* A confidence is the pair <<sum of scores, number of nonzero scores>>,   *)
(* the numerator and the denominator of the division of lines 260-262.     *)
(***************************************************************************)
EXTENDS Integers, Sequences, FiniteSets, TLC

None == <<>>
Some(x) == <<x>>
Val(o) == o[1]

(***************************************************************************)
(* Bounds of the model.                                                    *)
(***************************************************************************)
MaxImages == 2
MaxBatch == 3
MaxTokens == 4
MaxWork == 4

(***************************************************************************)
(* Small input sets.                                                       *)
(***************************************************************************)
Widths == {10, 30, 50}
Devices == {"cpu", "cuda", "mps"}
QueryFails == None
MemReadings == {QueryFails} \cup {Some(m) : m \in {0, 5, 12, 100, 135, 700, 10000000}}
LangChoices == {None, Some(<<"en">>), Some(<<"en", "_math">>)}

(***************************************************************************)
(* Tokenizer and model configuration (opaque collaborators).               *)
(***************************************************************************)
eos_id == 1
pad_id == 0
decoder_start_token_id == 2
text_token == 5
math_token == 6
\* What the decoder stub can yield for a sample at a step: an ordinary token
\* or a terminal one, with a low or a high score.
DecoderOutputs ==
    {[pred |-> text_token, score |-> 1], [pred |-> math_token, score |-> 2],
     [pred |-> eos_id, score |-> 1], [pred |-> pad_id, score |-> 2]}
RECOGNITION_ENCODER_BATCH_DIVISOR == 2

VARIABLES
    images,             \* parameter images: sequence of [valid, width, px]
    languages,          \* parameter languages: sequence of None | Some(tags)
    batch_size,         \* parameter / local batch_size: None | Some(k)
    max_tokens,         \* settings.RECOGNITION_MAX_TOKENS
    static_cache,       \* settings.RECOGNITION_STATIC_CACHE
    env,                \* what the memory queries and settings report
    pc,                 \* position in batch_recognition
    error,              \* the exception that left the call, if any
    result,             \* None | Some(<<output_text, confidences>>)
    indices,            \* line 90
    sorted_images,      \* line 91 (the rebinding of images)
    i,                  \* loop variable of line 95
    output_text,        \* line 93
    confidences,        \* line 94
    batch_images,       \* line 96
    batch_langs,        \* line 101: what the processor is handed
    has_math,           \* line 102
    current_batch_size, \* line 123
    token_count,        \* line 132
    inference_token_count, \* line 133
    decoder_input_shape,   \* <<rows, columns>> of batch_decoder_input
    decoder_position_ids,  \* lines 136-141
    sequence_scores,    \* line 149: None | Some(rows of per-step scores)
    all_done,           \* line 150
    batch_predictions,  \* line 134
    batch_decoder_input,   \* lines 128-130, 236: the rows of the tensor
    cache,              \* lines 142-147: the two caches of the model
    raw_scores,         \* history: the unmasked scores of each step
    raw_preds,          \* history: the predictions of each step
    decoder_log,        \* history: the decoder calls of the chunk
    done_step,          \* history: the step a sample became done at, or 0
    calls,              \* history: how often each collaborator was invoked
    chunks,             \* history: the batch_images of every chunk so far
    decoded_from        \* history: px -> None | Some(<<text, confidence>>)

inputs == <<images, languages, max_tokens, static_cache, env>>
control == <<pc, error, result>>
plan == <<indices, sorted_images>>
outer == <<i, output_text, confidences>>
batch == <<batch_images, batch_langs, has_math, current_batch_size>>
decode == <<token_count, inference_token_count, decoder_input_shape,
            decoder_position_ids, sequence_scores, all_done,
            batch_predictions, raw_scores, done_step, batch_decoder_input,
            cache, raw_preds, decoder_log>>
history == <<calls, chunks, decoded_from>>
vars == <<inputs, batch_size, control, plan, outer, batch, decode, history>>

(***************************************************************************)
(* Sequence helpers.                                                       *)
(***************************************************************************)
Min2(a, b) == IF a <= b THEN a ELSE b
Max2(a, b) == IF a >= b THEN a ELSE b

RECURSIVE SumSeq(_)
SumSeq(s) == IF s = <<>> THEN 0 ELSE s[1] + SumSeq(Tail(s))

CountNonZero(s) == Cardinality({k \in 1..Len(s) : s[k] # 0})

MaxOfSeq(s) == CHOOSE m \in {s[k] : k \in 1..Len(s)} :
                   \A k \in 1..Len(s) : s[k] <= m

\* Python's s[a : b] on a list, a and b 0-based, b clipped to len(s).
Slice(s, a, b) == SubSeq(s, a + 1, Min2(b, Len(s)))

SeqsUpTo(S, n) == UNION {[1..k -> S] : k \in 0..n}

(***************************************************************************)
(* get_available_memory_gb, lines 16-29.  env.sys and env.gpu are what     *)
(* psutil.virtual_memory().available and get_device_properties(0)          *)
(* .total_memory report, Some(tenths of a GiB), or QueryFails when the     *)
(* query raises.  The returned amounts are in hundredths of a GiB, which keeps   *)
(* the factor 0.7 of line 27 exact.  The function has no try/except: a     *)
(* raising query leaves it by the exception.                               *)
(***************************************************************************)
get_available_memory_gb(e) ==
    IF e.sys = QueryFails
    THEN [raised |-> TRUE, sys_memory |-> 0, gpu_memory |-> None]
    ELSE IF e.device = "cuda" /\ e.cuda
    THEN IF e.gpu = QueryFails
         THEN [raised |-> TRUE, sys_memory |-> 0, gpu_memory |-> None]
         ELSE [raised |-> FALSE, sys_memory |-> Val(e.sys) * 10,
               gpu_memory |-> Some(Val(e.gpu) * 10)]
    ELSE IF e.device = "mps"
    THEN [raised |-> FALSE, sys_memory |-> Val(e.sys) * 10,
          gpu_memory |-> Some(Val(e.sys) * 7)]
    ELSE [raised |-> FALSE, sys_memory |-> Val(e.sys) * 10,
          gpu_memory |-> None]

min_batch == 8
max_batch == 512
mps_limit == 64

\* line 43: "gpu_memory if gpu_memory else sys_memory" (None and 0.0 are falsy)
AvailableMemory(sys_memory, gpu_memory) ==
    IF gpu_memory # None /\ Val(gpu_memory) # 0
    THEN Val(gpu_memory) ELSE sys_memory

\* lines 46-49: floor((available * 0.8) / 0.1), available in hundredths of a GiB
OptimalBatch(available_memory) == (available_memory * 8) \div 100

\* line 52
ClampNoFloor(optimal_batch) == Min2(optimal_batch, max_batch)
Clamp(optimal_batch) == Max2(min_batch, Min2(optimal_batch, max_batch))

\* lines 55-59
DeviceAdjust(bs, device) ==
    IF device = "mps" THEN Min2(bs, mps_limit)
    ELSE IF device = "cuda" THEN (bs \div 8) * 8
    ELSE bs

\* get_batch_size, lines 32-61: None when the memory query raised.
get_batch_size(e) ==
    LET mem == get_available_memory_gb(e)
    IN  IF mem.raised THEN None
        ELSE Some(DeviceAdjust(
                 Clamp(OptimalBatch(AvailableMemory(mem.sys_memory,
                                                    mem.gpu_memory))),
                 e.device))

(***************************************************************************)
(* sorted(..., key=...) is a stable sort; it is computed here as an        *)
(* insertion sort over <<key, value>> pairs that places a new pair after   *)
(* every pair whose key is not greater.                                    *)
(***************************************************************************)
InsertByKeyUnstable(s, x) ==
    LET p == Cardinality({k \in 1..Len(s) : s[k][1] < x[1]})
    IN  SubSeq(s, 1, p) \o <<x>> \o SubSeq(s, p + 1, Len(s))
InsertByKey(s, x) ==
    LET p == Cardinality({k \in 1..Len(s) : s[k][1] <= x[1]})
    IN  SubSeq(s, 1, p) \o <<x>> \o SubSeq(s, p + 1, Len(s))

RECURSIVE SortByKey(_)
SortByKey(s) ==
    IF s = <<>> THEN <<>>
    ELSE InsertByKey(SortByKey(SubSeq(s, 1, Len(s) - 1)), s[Len(s)])

\* line 88: sorted(enumerate(images), key=lambda x: x[1].width)
SortedPairs(imgs) ==
    LET keyed == [k \in 1..Len(imgs) |-> <<imgs[k].width, <<k - 1, imgs[k]>>>>]
        srt == SortByKey(keyed)
    IN  [k \in 1..Len(srt) |-> srt[k][2]]

\* lines 276-279: sorted(zip(indices, xs), key=lambda x: x[0]), then the values
RestoreOrderNot(idx, xs) == xs
RestoreOrder(idx, xs) ==
    LET n == Min2(Len(idx), Len(xs))
        srt == SortByKey([k \in 1..n |-> <<idx[k], xs[k]>>])
    IN  [k \in 1..n |-> srt[k][2]]

\* lines 96 and 101: xs[i : i + batch_size]
Chunk(xs, start, bs) == Slice(xs, start, start + bs)

\* line 102: lang and "_math" in lang, by its truth value
HasMath(lang) ==
    /\ lang # None
    /\ Val(lang) # <<>>
    /\ \E k \in 1..Len(Val(lang)) : Val(lang)[k] = "_math"

\* lines 104-109: the processor's language-token prefix, one id per tag
LangTokens(lang) ==
    IF lang = None THEN <<>>
    ELSE [k \in 1..Len(Val(lang)) |->
              IF Val(lang)[k] = "_math" THEN 11 ELSE 10]

\* lines 110-113: the common length of the padded rows of batch_decoder_input
MaxInputLength(langs) ==
    MaxOfSeq([k \in 1..Len(langs) |-> 1 + Len(LangTokens(langs[k]))])

\* lines 156-159: the number of encoder calls of a chunk
EncoderCalls(rows, bs) ==
    LET ebs == bs \div RECOGNITION_ENCODER_BATCH_DIVISOR + 1
    IN  (rows + ebs - 1) \div ebs

\* lines 64-72 on the batch axis: pad_to_batch_size(tensor, batch_size).shape[0]
PaddedRows(rows, bs) == IF rows >= bs THEN rows ELSE bs

\* lines 64-72: a tensor is the sequence of its rows; rows of zeros are
\* appended on the batch axis up to batch_size.
pad_not(tensor, bs) == tensor
pad_to_batch_size(tensor, bs) ==
    LET current == Len(tensor)
    IN  IF current >= bs THEN tensor
        ELSE tensor \o [r \in 1..(bs - current) |->
                           [c \in 1..Len(tensor[1]) |-> 0]]

\* lines 212-214: logits[:current_batch_size], on the rows of a tensor
Truncate(tensor, rows) == SubSeq(tensor, 1, Min2(rows, Len(tensor)))

\* lines 110-121: [decoder_start_token_id] + lang, left-padded with pad_id
\* to the longest row
InitialDecoderInput(langs) ==
    LET rows == [j \in 1..Len(langs) |->
                    <<decoder_start_token_id>> \o LangTokens(langs[j])]
        width == MaxOfSeq([j \in 1..Len(rows) |-> Len(rows[j])])
    IN  [j \in 1..Len(rows) |->
            [c \in 1..(width - Len(rows[j])) |-> pad_id] \o rows[j]]

\* lines 136-141 and 245-253: ones_like(input[0, :]).cumsum(0) - 1 + offset
PositionIds(row, offset) == [c \in 1..Len(row) |-> c - 1 + offset]

\* line 211: decoder_position_ids[-1:] + 1
AfterCallRepeats(ids) == <<ids[Len(ids)]>>
AfterCall(ids) == <<ids[Len(ids)] + 1>>

\* line 201
IsPrefillAlways(tc) == TRUE
IsPrefill(tc) == tc = 0

\* line 225: all_done = all_done | done
OverwriteDone(before, done) == done
AccumulateDone(before, done) ==
    [j \in DOMAIN before |-> before[j] \/ done[j]]

\* line 233: all_done.all()
BreakNever(mask) == FALSE
AllDone(mask) == \A j \in DOMAIN mask : mask[j]

\* line 230: scores.masked_fill(all_done, 0); all_done is the mask after
\* line 225 (done_now), not the mask the step started with (done_before).
MaskedFill(scores, done_before, done_now) ==
    [j \in DOMAIN scores |-> IF done_now[j] THEN 0 ELSE scores[j]]

\* lines 260-262: torch.sum(scores, -1) / torch.sum(scores != 0, -1), per row
ConfidenceOverAllSteps(row) == <<SumSeq(row), Len(row)>>
Confidence(row) == <<SumSeq(row), CountNonZero(row)>>

\* line 268: contains_math(text), a function of the text alone: the text
\* holds math markup exactly when the math-markup token was predicted.
ContainsMath(tokens) == \E k \in 1..Len(tokens) : tokens[k] = math_token

\* lines 263-270: the text of a sample, as the term it is computed by:
\* truncate_repetitions(batch_decode(tokens)), passed through fix_math when
\* the math flag of the sample is true and the text contains math.
DetectedText(tokens, math) ==
    [decoded |-> tokens, fix_math |-> math /\ ContainsMath(tokens)]

(***************************************************************************)
(* The initial states: a call of batch_recognition about to run line 78.   *)
(***************************************************************************)
NoCalls == [get_batch_size |-> 0, processor |-> 0, setup_cache |-> 0,
            text_setup_cache |-> 0, encoder |-> 0, text_encoder |-> 0,
            decoder |-> 0]

\* a cache: not set up, or set up with a capacity and used by some calls
NoCache == [decoder |-> None, text_encoder |-> None]
FreshCache(capacity) == Some([capacity |-> capacity, calls |-> 0])

\* An element of images: a PIL image of some width, or something else.
\* px names the pixel content, which is what the caller's position k holds.
ImageAt(k, w) == [valid |-> w # None,
                  width |-> IF w = None THEN 0 ELSE Val(w),
                  px |-> k - 1]
ImageLists ==
    {[k \in DOMAIN ws |-> ImageAt(k, ws[k])] :
        ws \in SeqsUpTo({None} \cup {Some(w) : w \in Widths}, MaxImages)}
LanguageLists == SeqsUpTo(LangChoices, MaxImages)
BatchSizes == {None} \cup {Some(k) : k \in 1..MaxBatch}
Envs == [sys : MemReadings, gpu : MemReadings, device : Devices,
         cuda : BOOLEAN]
DefaultEnv == [sys |-> Some(100), gpu |-> Some(100), device |-> "cpu",
               cuda |-> FALSE]

InitLocals ==
    /\ pc = "entry"
    /\ error = "none"
    /\ result = None
    /\ indices = <<>>
    /\ sorted_images = <<>>
    /\ i = 0
    /\ output_text = <<>>
    /\ confidences = <<>>
    /\ batch_images = <<>>
    /\ batch_langs = <<>>
    /\ has_math = <<>>
    /\ current_batch_size = 0
    /\ token_count = 0
    /\ inference_token_count = 0
    /\ decoder_input_shape = <<0, 0>>
    /\ decoder_position_ids = <<>>
    /\ sequence_scores = None
    /\ all_done = <<>>
    /\ batch_predictions = <<>>
    /\ raw_scores = <<>>
    /\ raw_preds = <<>>
    /\ decoder_log = <<>>
    /\ batch_decoder_input = <<>>
    /\ cache = NoCache
    /\ done_step = <<>>
    /\ calls = NoCalls
    /\ chunks = <<>>
    /\ decoded_from = [px \in 0..(Len(images) - 1) |-> None]

CallEnvs ==
    {[sys |-> Some(100), gpu |-> Some(135), device |-> "cuda", cuda |-> TRUE],
     [sys |-> QueryFails, gpu |-> Some(135), device |-> "cpu", cuda |-> FALSE]}

\* The decoder work of a call is bounded: samples times decode steps.
Init ==
    /\ images \in ImageLists
    /\ languages \in LanguageLists
    /\ batch_size \in BatchSizes
    /\ max_tokens \in 1..MaxTokens
    /\ Len(images) * (max_tokens - 1) <= MaxWork
    /\ static_cache \in BOOLEAN
    /\ env \in (IF batch_size = None THEN CallEnvs ELSE {DefaultEnv})
    /\ InitLocals

ValidInputsImagesOnly == \A k \in 1..Len(images) : images[k].valid
ValidInputs ==
    /\ \A k \in 1..Len(images) : images[k].valid
    /\ Len(images) = Len(languages)

(***************************************************************************)
(* Lines 78-79: an assertion fails and the call is left by AssertionError. *)
(***************************************************************************)
AssertFail ==
    /\ pc = "entry"
    /\ ~ValidInputs
    /\ pc' = "raised"
    /\ error' = "AssertionError"
    /\ UNCHANGED <<inputs, batch_size, result, plan, outer, batch, decode,
                   history>>

(***************************************************************************)
(* Lines 81-82: no images, return [], [].                                  *)
(***************************************************************************)
ReturnEmptyAfterEstimate ==
    /\ pc = "entry"
    /\ ValidInputs
    /\ Len(images) = 0
    /\ pc' = "returned"
    /\ result' = Some(<<<<>>, <<>>>>)
    /\ calls' = IF batch_size = None
                THEN [calls EXCEPT !.get_batch_size = @ + 1] ELSE calls
    /\ UNCHANGED <<inputs, batch_size, error, plan, outer, batch, decode,
                   chunks, decoded_from>>

ReturnEmpty ==
    /\ pc = "entry"
    /\ ValidInputs
    /\ Len(images) = 0
    /\ pc' = "returned"
    /\ result' = Some(<<<<>>, <<>>>>)
    /\ UNCHANGED <<inputs, batch_size, error, plan, outer, batch, decode,
                   history>>

(***************************************************************************)
(* Lines 84-85: batch_size given by the caller, or estimated from memory.  *)
(* get_batch_size has no handler for a failing query: the exception leaves *)
(* batch_recognition too.                                                  *)
(***************************************************************************)
ResolveBatchSize ==
    /\ pc = "entry"
    /\ ValidInputs
    /\ Len(images) # 0
    /\ \/ /\ batch_size # None
          /\ pc' = "sort"
          /\ UNCHANGED <<batch_size, error, calls>>
       \/ /\ batch_size = None
          /\ get_batch_size(env) # None
          /\ batch_size' = get_batch_size(env)
          /\ calls' = [calls EXCEPT !.get_batch_size = @ + 1]
          /\ pc' = "sort"
          /\ UNCHANGED error
       \/ /\ batch_size = None
          /\ get_batch_size(env) = None
          /\ calls' = [calls EXCEPT !.get_batch_size = @ + 1]
          /\ pc' = "raised"
          /\ error' = "MemoryQueryError"
          /\ UNCHANGED batch_size
    /\ UNCHANGED <<inputs, result, plan, outer, batch, decode, chunks,
                   decoded_from>>

(***************************************************************************)
(* Lines 87-94: sort the images by width, remember the original indices.   *)
(* Only images is rebound: languages stays in the caller's order.          *)
(***************************************************************************)
SortImages ==
    /\ pc = "sort"
    /\ LET sorted_pairs == SortedPairs(images)
       IN  /\ indices' = [k \in 1..Len(sorted_pairs) |-> sorted_pairs[k][1]]
           /\ sorted_images' =
                  [k \in 1..Len(sorted_pairs) |-> sorted_pairs[k][2]]
    /\ output_text' = <<>>
    /\ confidences' = <<>>
    /\ i' = 0
    /\ pc' = "batch_loop"
    /\ UNCHANGED <<inputs, batch_size, error, result, batch, decode, history>>

(***************************************************************************)
(* Lines 95-198: the head of one chunk: slice, preprocess, set up the      *)
(* caches, run the encoders.  The decoder input has one row per sample and *)
(* max_input_length columns.                                               *)
(***************************************************************************)
StartBatch ==
    /\ pc = "batch_loop"
    /\ i < Len(sorted_images)
    /\ LET bs == Val(batch_size)
           imgs == Chunk(sorted_images, i, bs)
           langs == Chunk(languages, i, bs)
           rows == Len(imgs)
           cols == MaxInputLength(langs)
       IN  /\ batch_images' = imgs
           /\ batch_langs' = langs
           /\ has_math' = [j \in 1..Len(langs) |-> HasMath(langs[j])]
           /\ current_batch_size' = rows
           /\ token_count' = 0
           /\ inference_token_count' = cols
           /\ batch_predictions' = [j \in 1..rows |-> <<>>]
           /\ decoder_position_ids' =
                  PositionIds(InitialDecoderInput(langs)[1], 0)
           /\ sequence_scores' = None
           /\ all_done' = [j \in 1..rows |-> FALSE]
           /\ raw_scores' = [j \in 1..rows |-> <<>>]
           /\ raw_preds' = [j \in 1..rows |-> <<>>]
           /\ decoder_log' = <<>>
           /\ done_step' = [j \in 1..rows |-> 0]
           /\ chunks' = Append(chunks, imgs)
           /\ decoder_input_shape' =
                  <<IF static_cache THEN PaddedRows(rows, bs) ELSE rows, cols>>
           /\ batch_decoder_input' =
                  IF static_cache
                  THEN pad_to_batch_size(InitialDecoderInput(langs), bs)
                  ELSE InitialDecoderInput(langs)
           /\ cache' = [decoder |-> FreshCache(bs),
                        text_encoder |-> FreshCache(bs)]
           /\ calls' = [calls EXCEPT !.processor = @ + 1,
                                     !.setup_cache = @ + 1,
                                     !.text_setup_cache = @ + 1,
                                     !.encoder = @ + EncoderCalls(rows, bs),
                                     !.text_encoder = @ + 1]
    /\ pc' = "decode"
    /\ UNCHANGED <<inputs, batch_size, error, result, plan, outer,
                   decoded_from>>

(***************************************************************************)
(* Lines 200-258: one iteration of the decode loop.  The decoder is        *)
(* opaque: it returns one row of logits per row of its input, and for      *)
(* every row kept by line 212 there is some predicted token (the argmax of *)
(* the last position) with some positive score (the max of the softmax).   *)
(***************************************************************************)
IsTerminal(pred) == pred = eos_id \/ pred = pad_id

\* lines 242-243
NextTokenCountStuck(tc, itc) == tc
NextTokenCountByOne(tc, itc) == tc + 1
NextTokenCount(tc, itc) == tc + itc

\* lines 238-240
AppendPredictionsAlways(preds, status, out) ==
    [j \in DOMAIN preds |-> Append(preds[j], out[j].pred)]
AppendPredictions(preds, status, out) ==
    [j \in DOMAIN preds |->
        IF ~status[j] THEN Append(preds[j], out[j].pred) ELSE preds[j]]

DecodeStep ==
    /\ pc = "decode"
    /\ token_count < max_tokens - 1
    /\ \E out \in [1..Len(Truncate(batch_decoder_input, current_batch_size))
                    -> DecoderOutputs] :
         LET is_prefill == IsPrefill(token_count)
             bs == Val(batch_size)
             position_after_call == AfterCall(decoder_position_ids)
             scores == [j \in 1..current_batch_size |-> out[j].score]
             done == [j \in 1..current_batch_size |-> IsTerminal(out[j].pred)]
             now_done == AccumulateDone(all_done, done)
             next_input == [j \in 1..current_batch_size |-> <<out[j].pred>>]
             recorded == IF is_prefill THEN scores
                         ELSE MaskedFill(scores, all_done, now_done)
             old_rows == IF is_prefill
                         THEN [j \in 1..current_batch_size |-> <<>>]
                         ELSE Val(sequence_scores)
         IN  /\ calls' = [calls EXCEPT !.decoder = @ + 1]
             /\ all_done' = now_done
             /\ sequence_scores' =
                    Some([j \in 1..current_batch_size |->
                             Append(old_rows[j], recorded[j])])
             /\ raw_scores' = [j \in 1..current_batch_size |->
                                  Append(raw_scores[j], scores[j])]
             /\ raw_preds' = [j \in 1..current_batch_size |->
                                 Append(raw_preds[j], out[j].pred)]
             /\ decoder_log' =
                    Append(decoder_log,
                           [input_ids |-> batch_decoder_input,
                            cache_position |-> decoder_position_ids,
                            prefill |-> is_prefill,
                            cache |-> cache.decoder,
                            logits_rows |-> Len(batch_decoder_input),
                            pred_rows |-> Cardinality(DOMAIN out),
                            all_done |-> all_done])
             /\ cache' = [cache EXCEPT !.decoder =
                             IF @ = None THEN @
                             ELSE Some([Val(@) EXCEPT !.calls = @ + 1])]
             /\ done_step' = [j \in 1..current_batch_size |->
                                 IF done[j] /\ ~all_done[j]
                                 THEN Len(raw_scores[j]) + 1
                                 ELSE done_step[j]]
             /\ IF AllDone(now_done)
                THEN \* line 233: break
                     /\ decoder_position_ids' = position_after_call
                     /\ pc' = "post"
                     /\ UNCHANGED <<batch_predictions, token_count,
                                    inference_token_count,
                                    decoder_input_shape,
                                    batch_decoder_input>>
                ELSE /\ batch_predictions' =
                            AppendPredictions(batch_predictions, now_done, out)
                     /\ token_count' =
                            NextTokenCount(token_count, inference_token_count)
                     /\ inference_token_count' = 1
                     /\ decoder_position_ids' =
                            PositionIds(next_input[1],
                                        MaxOfSeq(position_after_call))
                     /\ batch_decoder_input' =
                            IF static_cache
                            THEN pad_to_batch_size(next_input, bs)
                            ELSE next_input
                     /\ decoder_input_shape' =
                            <<IF static_cache
                              THEN PaddedRows(current_batch_size, bs)
                              ELSE current_batch_size, 1>>
                     /\ pc' = "decode"
    /\ UNCHANGED <<inputs, batch_size, error, result, plan, outer, batch,
                   chunks, decoded_from>>

(***************************************************************************)
(* Line 200: the loop condition is false, the loop is left.                *)
(***************************************************************************)
LoopExit ==
    /\ pc = "decode"
    /\ ~(token_count < max_tokens - 1)
    /\ pc' = "post"
    /\ UNCHANGED <<inputs, batch_size, error, result, plan, outer, batch,
                   decode, history>>

(***************************************************************************)
(* Lines 260-274: aggregate the confidences, decode and postprocess the    *)
(* texts, extend the outputs, go to the next chunk.  torch.sum(None)       *)
(* raises when the loop never ran.                                         *)
(***************************************************************************)
\* line 95: range(0, len(images), batch_size)
NextChunkStartSkips(start, bs) == start + bs + 1
NextChunkStart(start, bs) == start + bs

FinishBatch ==
    /\ pc = "post"
    /\ \/ /\ sequence_scores = None
          /\ pc' = "raised"
          /\ error' = "TypeError"
          /\ UNCHANGED <<outer, decoded_from>>
       \/ /\ sequence_scores # None
          /\ LET rows == Val(sequence_scores)
                 scores == [j \in 1..current_batch_size |->
                               Confidence(rows[j])]
                 detected_text ==
                     [j \in 1..Min2(current_batch_size, Len(has_math)) |->
                         DetectedText(batch_predictions[j], has_math[j])]
             IN  /\ output_text' = output_text \o detected_text
                 /\ confidences' = confidences \o scores
                 /\ decoded_from' =
                        [px \in DOMAIN decoded_from |->
                            IF \E j \in DOMAIN detected_text :
                                   batch_images[j].px = px
                            THEN LET j == CHOOSE j \in DOMAIN detected_text :
                                              batch_images[j].px = px
                                 IN  Some(<<detected_text[j], scores[j]>>)
                            ELSE decoded_from[px]]
          /\ i' = NextChunkStart(i, Val(batch_size))
          /\ pc' = "batch_loop"
          /\ UNCHANGED error
    /\ UNCHANGED <<inputs, batch_size, result, plan, batch, decode, calls,
                   chunks>>

(***************************************************************************)
(* Lines 276-280: the chunks are exhausted; restore the caller's order.    *)
(***************************************************************************)
ReturnResults ==
    /\ pc = "batch_loop"
    /\ ~(i < Len(sorted_images))
    /\ result' = Some(<<RestoreOrder(indices, output_text),
                        RestoreOrder(indices, confidences)>>)
    /\ pc' = "returned"
    /\ UNCHANGED <<inputs, batch_size, error, plan, outer, batch, decode,
                   history>>

Next ==
    \/ AssertFail
    \/ ReturnEmpty
    \/ ResolveBatchSize
    \/ SortImages
    \/ StartBatch
    \/ DecodeStep
    \/ LoopExit
    \/ FinishBatch
    \/ ReturnResults

Spec == Init /\ [][Next]_vars

(***************************************************************************)
(* get_batch_size called on its own, for every memory reading and device.  *)
(***************************************************************************)
InitBatchSize ==
    /\ images = <<>>
    /\ languages = <<>>
    /\ batch_size = None
    /\ max_tokens = 1
    /\ static_cache = FALSE
    /\ env \in Envs
    /\ InitLocals

CallGetBatchSize ==
    /\ pc = "entry"
    /\ calls' = [calls EXCEPT !.get_batch_size = @ + 1]
    /\ \/ /\ get_batch_size(env) # None
          /\ batch_size' = get_batch_size(env)
          /\ pc' = "returned"
          /\ UNCHANGED error
       \/ /\ get_batch_size(env) = None
          /\ pc' = "raised"
          /\ error' = "MemoryQueryError"
          /\ UNCHANGED batch_size
    /\ UNCHANGED <<inputs, result, plan, outer, batch, decode, chunks,
                   decoded_from>>

NextBatchSize == CallGetBatchSize

SpecBatchSize == InitBatchSize /\ [][NextBatchSize]_vars

TypeOK == pc \in {"entry", "sort", "batch_loop", "decode", "post",
                  "returned", "raised"}

(***************************************************************************)
(* Derived notions used by the properties.                                 *)
(***************************************************************************)
\* decoder calls made for the current chunk
Steps == IF current_batch_size = 0 THEN 0 ELSE Len(raw_scores[1])

\* the chunk whose locals are in the state has been finished (lines 260-274)
JustFinished ==
    /\ pc \in {"batch_loop", "returned"}
    /\ current_batch_size > 0
    /\ Len(confidences) >= current_batch_size
    /\ Len(output_text) >= current_batch_size

\* where sample j of the finished chunk sits in output_text and confidences
OutputSlot(j) == Len(confidences) - current_batch_size + j

RECURSIVE Flatten(_)
Flatten(ss) == IF ss = <<>> THEN <<>> ELSE ss[1] \o Flatten(Tail(ss))

ReturnedTexts == Val(result)[1]
ReturnedConfidences == Val(result)[2]

(***************************************************************************)
(* C1.  A call that returns yields two lists that are as long as images.   *)
(***************************************************************************)
C1_LengthsMatch ==
    (pc = "returned" /\ result # None) =>
        /\ Len(ReturnedTexts) = Len(images)
        /\ Len(ReturnedConfidences) = Len(images)

C1_Witness ==
    /\ pc = "returned"
    /\ Len(images) = 2
    /\ Len(chunks) = 2
    /\ Len(ReturnedTexts) = 2

(***************************************************************************)
(* C2.  The text and the confidence returned at caller position k are the  *)
(* ones decoded from the image the caller passed at position k, whatever   *)
(* the widths and the batch size.                                          *)
(***************************************************************************)
C2_ResultsAtCallerIndex ==
    (pc = "returned" /\ result # None) =>
        \A k \in 1..Len(images) :
            /\ decoded_from[k - 1] # None
            /\ k <= Len(ReturnedTexts)
            /\ k <= Len(ReturnedConfidences)
            /\ ReturnedTexts[k] = Val(decoded_from[k - 1])[1]
            /\ ReturnedConfidences[k] = Val(decoded_from[k - 1])[2]

C2_Witness ==
    /\ pc = "returned"
    /\ Len(images) = 2
    /\ images[1].width = 50
    /\ images[2].width = 10
    /\ batch_size = Some(1)
    /\ indices = <<1, 0>>
    /\ ReturnedConfidences[1] # ReturnedConfidences[2]
    /\ ReturnedTexts[1] # ReturnedTexts[2]

(***************************************************************************)
(* C3.  In every chunk the language tags handed to the processor for a     *)
(* sample, and the math flag of that sample, are the ones the caller       *)
(* supplied at the original index of that sample's image.                  *)
(***************************************************************************)
C3_LanguagesFollowImages ==
    pc \in {"decode", "post"} =>
        \A j \in 1..current_batch_size :
            /\ batch_langs[j] = languages[batch_images[j].px + 1]
            /\ has_math[j] = HasMath(languages[batch_images[j].px + 1])

(***************************************************************************)
(* C4.  get_batch_size returns an integer in [8, 512] for every memory     *)
(* reading (0 and a huge one included) and every device.                   *)
(***************************************************************************)
C4_BatchSizeInRange ==
    (calls.get_batch_size > 0 /\ pc # "raised") =>
        /\ batch_size # None
        /\ Val(batch_size) \in 8..512

C4_Witness ==
    /\ pc = "returned"
    /\ calls.get_batch_size = 1
    /\ env.sys = Some(0)
    /\ env.device = "mps"
    /\ batch_size = Some(8)

(***************************************************************************)
(* C5.  When a memory query fails, the estimate falls back to the minimum  *)
(* batch size 8 and the call goes on.                                      *)
(***************************************************************************)
C5_FallsBackToMinBatch ==
    (calls.get_batch_size > 0 /\ get_available_memory_gb(env).raised) =>
        /\ pc # "raised"
        /\ batch_size = Some(min_batch)

(***************************************************************************)
(* C6.  The decode loop of a chunk makes at most RECOGNITION_MAX_TOKENS    *)
(* decoder calls whatever the decoder predicts, and a loop that ran out of *)
(* budget leaves a score matrix behind and no error: the only error after  *)
(* the loop is that of a loop that made no call at all.                    *)
(***************************************************************************)
C6_DecodeStepsBounded ==
    /\ Steps <= max_tokens
    /\ (pc = "post" /\ Steps > 0) => (sequence_scores # None /\ error = "none")
    /\ error = "TypeError" => Steps = 0

C6_Witness ==
    /\ pc = "post"
    /\ current_batch_size = 2
    /\ Steps = 2
    /\ Steps = max_tokens - 1
    /\ \A j \in 1..current_batch_size : ~all_done[j]
    /\ token_count >= max_tokens - 1

(***************************************************************************)
(* C7.  The confidence of a sample that terminated at step k is the mean   *)
(* of its first k raw scores (terminal step included).                     *)
(***************************************************************************)
C7_MeanOfFirstKScores ==
    JustFinished =>
        \A j \in 1..current_batch_size :
            done_step[j] > 0 =>
                LET k == done_step[j]
                    conf == confidences[OutputSlot(j)]
                IN  /\ conf[2] # 0
                    /\ conf[1] * k = SumSeq(SubSeq(raw_scores[j], 1, k)) * conf[2]

C9_PlanPartitionsIndices ==
    LET flat == Flatten(chunks)
    IN  /\ \A c \in 1..Len(chunks) :
               /\ Len(chunks[c]) >= 1
               /\ batch_size # None
               /\ Len(chunks[c]) <= Val(batch_size)
        /\ \A a \in 1..Len(flat) :
               /\ flat[a].px \in 0..(Len(images) - 1)
               /\ flat[a] = images[flat[a].px + 1]
        /\ \A a, b \in 1..Len(flat) :
               a < b =>
                   /\ flat[a].px # flat[b].px
                   /\ \/ flat[a].width < flat[b].width
                      \/ /\ flat[a].width = flat[b].width
                         /\ flat[a].px < flat[b].px
        /\ (pc = "returned" /\ Len(images) > 0) =>
               {flat[a].px : a \in 1..Len(flat)} = 0..(Len(images) - 1)

C9_Witness ==
    /\ pc = "returned"
    /\ Len(images) = 2
    /\ images[1].width = images[2].width
    /\ batch_size = Some(1)
    /\ Len(chunks) = 2
    /\ chunks[1][1].px = 0

(***************************************************************************)
(* C10.  A call with no images returns ([], []) at once: no batch size is  *)
(* estimated, no chunk is built, no cache is set up, and neither the       *)
(* processor nor the model is invoked.                                     *)
(***************************************************************************)
C10_EmptyInputReturnsAtOnce ==
    (Len(images) = 0 /\ Len(languages) = 0 /\ pc # "entry") =>
        /\ pc = "returned"
        /\ result = Some(<<<<>>, <<>>>>)
        /\ calls = NoCalls
        /\ chunks = <<>>
        /\ indices = <<>>

C10_Witness ==
    /\ pc = "returned"
    /\ Len(images) = 0
    /\ Len(languages) = 0
    /\ batch_size = None
    /\ result = Some(<<<<>>, <<>>>>)

(***************************************************************************)
(* Derived notions of the decode loop.                                     *)
(***************************************************************************)
\* the length of the initial decoder input of the current chunk
InitialLength == MaxInputLength(batch_langs)

\* the input the k-th decoder call of the chunk is built from, before padding
UnpaddedInput(k) ==
    IF k = 1 THEN InitialDecoderInput(batch_langs)
    ELSE [j \in 1..current_batch_size |-> <<raw_preds[j][k - 1]>>]

(***************************************************************************)
(* C11.  When the lengths of images and languages differ, or an element of *)
(* images is no image, the call is rejected before any work: no batch size *)
(* estimate, sort, processor call, cache setup, encoder or decoder call.   *)
(***************************************************************************)
C11_InvalidInputsRejectedFirst ==
    (/\ \/ Len(images) # Len(languages)
        \/ \E k \in 1..Len(images) : ~images[k].valid
     /\ pc # "entry") =>
        /\ pc = "raised"
        /\ error = "AssertionError"
        /\ result = None
        /\ calls = NoCalls
        /\ cache = NoCache
        /\ indices = <<>>
        /\ sorted_images = <<>>
        /\ chunks = <<>>
        /\ decoder_log = <<>>
        /\ output_text = <<>>
        /\ confidences = <<>>

C11_Witness ==
    /\ pc = "raised"
    /\ error = "AssertionError"
    /\ Len(images) = 2
    /\ Len(languages) = 1
    /\ \A k \in 1..Len(images) : images[k].valid

(***************************************************************************)
(* C12.  For a sample that becomes done at step s, the score recorded at   *)
(* step s is the step's raw, nonzero score, and the score recorded at      *)
(* every later step is 0.                                                  *)
(***************************************************************************)
C12_TerminalScoreRecorded ==
    sequence_scores # None =>
        \A j \in 1..current_batch_size :
            done_step[j] > 0 =>
                LET row == Val(sequence_scores)[j]
                    s == done_step[j]
                IN  /\ row[s] = raw_scores[j][s]
                    /\ row[s] # 0
                    /\ \A t \in (s + 1)..Len(row) : row[t] = 0

(***************************************************************************)
(* C13.  The done flag of a sample is false when the chunk's decoding      *)
(* starts and, once true, stays true for the rest of the chunk, whatever   *)
(* the decoder predicts for the sample afterwards: at every step the flag  *)
(* is true exactly when some earlier prediction of the sample was eos/pad. *)
(***************************************************************************)
C13_DoneMaskMonotonic ==
    /\ \A j \in DOMAIN all_done :
           all_done[j] <=>
               \E t \in 1..Len(raw_preds[j]) : IsTerminal(raw_preds[j][t])
    /\ \A k \in 1..Len(decoder_log) :
           \A j \in DOMAIN decoder_log[k].all_done :
               decoder_log[k].all_done[j] <=>
                   \E t \in 1..(k - 1) : IsTerminal(raw_preds[j][t])

C13_Witness ==
    /\ pc = "decode"
    /\ current_batch_size = 2
    /\ Len(raw_preds[1]) = 2
    /\ IsTerminal(raw_preds[1][1])
    /\ ~IsTerminal(raw_preds[1][2])
    /\ all_done[1]
    /\ ~all_done[2]

(***************************************************************************)
(* C14.  The loop stops at the first step after which every sample is      *)
(* done, budget left or not: the decoder is never called with every sample *)
(* already done, and the final step appends no token.                      *)
(***************************************************************************)
C14_StopsWhenAllDone ==
    /\ \A k \in 1..Len(decoder_log) :
           \E j \in DOMAIN decoder_log[k].all_done :
               ~decoder_log[k].all_done[j]
    /\ (current_batch_size > 0 /\ \A j \in DOMAIN all_done : all_done[j]) =>
           /\ pc # "decode"
           /\ \A j \in 1..current_batch_size :
                  Len(batch_predictions[j]) <= Len(decoder_log) - 1

C14_Witness ==
    /\ pc = "post"
    /\ current_batch_size = 2
    /\ \A j \in DOMAIN all_done : all_done[j]
    /\ Len(decoder_log) = 1
    /\ token_count + inference_token_count < max_tokens - 1

(***************************************************************************)
(* C15.  A token is appended to a sample's sequence at a step exactly when *)
(* the sample is not done after that step: the sequence of a sample first  *)
(* done at step s is its predictions of steps 1..s-1 in order, that of a   *)
(* sample not done yet is all its predictions, and no sequence holds eos   *)
(* or pad.                                                                 *)
(***************************************************************************)
C15_PredictionsAreUndoneSteps ==
    \A j \in DOMAIN batch_predictions :
        LET kept == IF done_step[j] > 0 THEN done_step[j] - 1
                    ELSE Len(raw_preds[j])
        IN  /\ batch_predictions[j] = SubSeq(raw_preds[j], 1, kept)
            /\ \A t \in 1..Len(batch_predictions[j]) :
                   ~IsTerminal(batch_predictions[j][t])

C15_Witness ==
    /\ pc = "post"
    /\ current_batch_size = 2
    /\ done_step[1] = 2
    /\ done_step[2] = 0
    /\ batch_predictions[1] = <<math_token>>
    /\ batch_predictions[2] = <<text_token, math_token>>

(***************************************************************************)
(* C16.  With an initial decoder input of length L the prefill call gets   *)
(* the cache positions 0..L-1 and the n-th call after it the position      *)
(* L+n-1: contiguous, increasing, none repeated or skipped.                *)
(***************************************************************************)
C16_CachePositionsContiguous ==
    \A k \in 1..Len(decoder_log) :
        decoder_log[k].cache_position =
            IF k = 1 THEN [c \in 1..InitialLength |-> c - 1]
            ELSE <<InitialLength + (k - 1) - 1>>

C16_Witness ==
    /\ Len(decoder_log) = 2
    /\ InitialLength = 2
    /\ decoder_log[1].cache_position = <<0, 1>>
    /\ decoder_log[2].cache_position = <<2>>

(***************************************************************************)
(* C17.  Both caches are set up anew with capacity batch_size before the   *)
(* first decoder call of every chunk, the first decoder call of a chunk    *)
(* has prefill=True and every later one prefill=False.                     *)
(***************************************************************************)
C17_CacheProtocol ==
    /\ calls.setup_cache = Len(chunks)
    /\ calls.text_setup_cache = Len(chunks)
    /\ \A k \in 1..Len(decoder_log) :
           /\ decoder_log[k].cache # None
           /\ Val(decoder_log[k].cache).capacity = Val(batch_size)
           /\ Val(decoder_log[k].cache).calls = k - 1
           /\ cache.text_encoder = FreshCache(Val(batch_size))
           /\ decoder_log[k].prefill <=> k = 1

C17_Witness ==
    /\ Len(chunks) = 2
    /\ Len(decoder_log) = 2
    /\ decoder_log[1].prefill
    /\ ~decoder_log[2].prefill
    /\ Val(decoder_log[1].cache).calls = 0

(***************************************************************************)
(* C18.  With the static cache every decoder call of a chunk gets an input *)
(* of batch_size rows, also when the chunk is smaller; the predictions are *)
(* taken from the first current_batch_size rows of the logits; and padding *)
(* then truncating gives back the rows that were padded.                   *)
(***************************************************************************)
C18_StaticCachePadsToCapacity ==
    static_cache =>
        \A k \in 1..Len(decoder_log) :
            /\ Len(decoder_log[k].input_ids) = Val(batch_size)
            /\ decoder_log[k].logits_rows = Val(batch_size)
            /\ decoder_log[k].pred_rows = current_batch_size
            /\ Truncate(decoder_log[k].input_ids, current_batch_size)
                   = UnpaddedInput(k)
            /\ Truncate(pad_to_batch_size(UnpaddedInput(k), Val(batch_size)),
                        Len(UnpaddedInput(k))) = UnpaddedInput(k)

C18_Witness ==
    /\ static_cache
    /\ current_batch_size = 2
    /\ batch_size = Some(3)
    /\ Len(decoder_log) = 2
    /\ Len(decoder_log[1].input_ids) = 3
    /\ Len(decoder_log[2].input_ids) = 3

(***************************************************************************)
(* C19.  With an initial decoder input of length L, 1 <= L <=              *)
(* RECOGNITION_MAX_TOKENS - 1, a chunk makes at most RECOGNITION_MAX_TOKENS *)
(* - L decoder calls, L plus the tokens of a sample never exceeds          *)
(* RECOGNITION_MAX_TOKENS, and no cache position passed to the decoder     *)
(* exceeds RECOGNITION_MAX_TOKENS - 1.                                     *)
(***************************************************************************)
C19_BudgetCountsInitialInput ==
    (/\ current_batch_size > 0
     /\ InitialLength >= 1
     /\ InitialLength <= max_tokens - 1) =>
        /\ Len(decoder_log) <= max_tokens - InitialLength
        /\ \A j \in 1..current_batch_size :
               InitialLength + Len(batch_predictions[j]) <= max_tokens
        /\ \A k \in 1..Len(decoder_log) :
               \A c \in 1..Len(decoder_log[k].cache_position) :
                   decoder_log[k].cache_position[c] <= max_tokens - 1

C19_Witness ==
    /\ pc = "post"
    /\ current_batch_size = 1
    /\ InitialLength = 2
    /\ max_tokens = 4
    /\ Len(decoder_log) = 2
    /\ Len(batch_predictions[1]) = 2

(***************************************************************************)
(* C20.  For every RECOGNITION_MAX_TOKENS >= 1, when the decode loop of a  *)
(* chunk has ended the score matrix exists and every sample has a nonzero  *)
(* recorded score, so the confidence division is defined.                  *)
(***************************************************************************)
C20_ScoresExistAtLoopEnd ==
    pc = "post" =>
        /\ sequence_scores # None
        /\ \A j \in 1..current_batch_size :
               CountNonZero(Val(sequence_scores)[j]) >= 1

====
